---------------------------- MODULE Spec2Model ----------------------------
(***************************************************************************)
(* Model of mock-c-project's graph counter (src/graph.c): two file-scope   *)
(* ints, nodes and edges, and the three functions graph_init,              *)
(* graph_add_node and graph_edge_count.                                    *)
(*                                                                         *)
(* A C int is modelled as a two's complement integer of IntBits bits.      *)
(* Signed overflow in add() is undefined behaviour; the outcome depends on *)
(* how the program was built, so the build is chosen once, in Init:        *)
(*   "wrapv"  the sum wraps modulo 2^IntBits (-fwrapv, or plain machine    *)
(*            arithmetic);                                                 *)
(*   "strict" the stored sum wraps, but the optimiser, assuming no         *)
(*            overflow, decides `nodes > 1` on the unwrapped sum;          *)
(*   "trapv"  the overflowing addition aborts the process (-ftrapv).       *)
(*                                                                         *)
(* Two runs of the program are modelled side by side: they perform the     *)
(* same sequence of calls and differ only in the ids handed to             *)
(* graph_add_node.                                                         *)
(*                                                                         *)
(* Specifications:                                                         *)
(*   Spec         the two runs, every call atomic (single-threaded use);   *)
(*   SpecNoReset  the two runs, only run 2 calling graph_init() first;     *)
(*   SpecConc     one process whose two callers interleave, one access to  *)
(*                the statics per step;                                    *)
(*   SpecClamp    clamp_int of util/number.h on every triple of ints.      *)
(***************************************************************************)
EXTENDS Integers, FiniteSets, Sequences, TLC

\* width of int in the model (the real int has 32 bits)
IntBits == 4

RECURSIVE Pow2(_)
Pow2(n) == IF n = 0 THEN 1 ELSE 2 * Pow2(n - 1)

INT_MAX == Pow2(IntBits - 1) - 1
INT_MIN == -Pow2(IntBits - 1)
IntRange == INT_MIN..INT_MAX

\* the value an int object holds after the two's complement sum x is stored
WrapInt(x) == ((x - INT_MIN) % Pow2(IntBits)) + INT_MIN

Max(a, b) == IF a >= b THEN a ELSE b

Builds == {"wrapv", "strict", "trapv"}
Runs == {1, 2}
\* the ids the callers pass: a negative one, zero and the largest int
Ids == {-5, 0, INT_MAX}

VARIABLES
    proc,       \* proc[r]: run r's process: nodes, edges (the statics of
                \* graph.c), ret (the value the last call returned), pc
    build,      \* how the program was compiled (decides overflow)
    op,         \* the last call made: "start" (none), "init", "add", "count"
    ids,        \* ids[r]: the id run r passed to its last graph_add_node
    prev,       \* history: proc before the last call
    prevOp,     \* history: op before the last call
    calls,      \* history: graph_add_node calls since the last graph_init
                \*          (or since program start), saturating at MaxCalls
    resetDone,  \* history: graph_init has been called at least once
    \* one process whose two callers (threads, or two users of the module)
    \* call into graph.c without any locking:
    nodes,      \* graph.c:4  static int nodes
    edges,      \* graph.c:5  static int edges
    thr,        \* thr[c]: caller c's position in the function it is in and
                \* the registers holding what it loaded (dead, and cleared,
                \* when the function returns)
    lastStep,   \* history: the caller that took the last step (0: none yet)
    before,     \* history: the statics before that step
    obs,        \* history: when the last step was a graph_edge_count: what
                \*          it returned, the nodes at that moment, what the
                \*          other caller was in
    writers,    \* history: the callers that ever called graph_init or
                \*          graph_add_node
    adds,       \* history: graph_add_node calls begun since the last
                \*          graph_init began
    done,       \* history: done[c]: graph_add_node calls of c that returned
                \*          since the last graph_init began
    retSet,     \* history: the values those calls returned
    retDup,     \* history: two of those calls returned the same value
    clean,      \* history: no call overlapped the last graph_init
    \* a caller of util/number.h:
    cin,        \* the arguments v, lo, hi handed to clamp_int
    cout,       \* what clamp_int(v, lo, hi) returned
    cout2,      \* what clamp_int(cout, lo, hi) returned
    cstage      \* "none" (clamp_int not in use), "in" (arguments chosen),
                \* "once", "twice" (calls made)

seqVars == <<proc, build, op, ids, prev, prevOp, calls, resetDone>>
concVars == <<nodes, edges, thr, lastStep, before, obs, writers, adds, done,
              retSet, retDup, clean>>
clampVars == <<cin, cout, cout2, cstage>>
vars == <<seqVars, concVars, clampVars>>

\* the history counter `calls` stops counting here, past the overflow of int
MaxCalls == INT_MAX + 3

-----------------------------------------------------------------------------
(* util/math.h: add.  The exact sum; what an int can hold of it is decided *)
(* by the build, in graph_add_node.                                        *)
add(a, b) == a + b

Overflows(x) == x \notin IntRange

\* statics that do not start at zero: static int nodes = 1
ProcInit_NodesOne == [nodes |-> 1, edges |-> 0, ret |-> 0, pc |-> "run"]

(* graph.c:4-5  static int nodes = 0; static int edges = 0; *)
ProcInit == [nodes |-> 0, edges |-> 0, ret |-> 0, pc |-> "run"]

\* a graph_init that forgets to clear edges
graph_init_KeepsEdges(p) == [p EXCEPT !.nodes = 0]

(* graph.c:7-10 *)
graph_init(p) == [p EXCEPT !.nodes = 0, !.edges = 0]

\* a graph_add_node that treats id 0 as "no node" and counts nothing for it,
\* instead of discarding the id
graph_add_node_SkipsZeroId(p, id) ==
    IF id = 0 THEN [p EXCEPT !.ret = p.nodes]
    ELSE LET n == WrapInt(add(p.nodes, 1))
             e == IF n > 1 THEN WrapInt(add(p.edges, 1)) ELSE p.edges
         IN  [p EXCEPT !.nodes = n, !.edges = e, !.ret = n]

\* a graph_add_node that rejects negative ids with a failed assertion
graph_add_node_RejectsNegative(p, id) ==
    IF id < 0 THEN [p EXCEPT !.pc = "aborted"]
    ELSE LET n == WrapInt(add(p.nodes, 1))
             e == IF n > 1 THEN WrapInt(add(p.edges, 1)) ELSE p.edges
         IN  [p EXCEPT !.nodes = n, !.edges = e, !.ret = n]

(* graph.c:12-17.  id is discarded by (void)id. *)
graph_add_node(p, id) ==
    LET n  == add(p.nodes, 1)
        p1 == [p EXCEPT !.nodes = WrapInt(n)]
        gt == IF build = "strict" THEN n > 1 ELSE p1.nodes > 1
        e  == add(p1.edges, 1)
        p2 == IF gt THEN [p1 EXCEPT !.edges = WrapInt(e)] ELSE p1
    IN  IF build = "trapv" /\ Overflows(n)
          THEN [p EXCEPT !.pc = "aborted"]
        ELSE IF build = "trapv" /\ gt /\ Overflows(e)
          THEN [p1 EXCEPT !.pc = "aborted"]
        ELSE [p2 EXCEPT !.ret = p2.nodes]

\* a graph_edge_count that returns the wrong counter
graph_edge_count_ReturnsNodes(p) == [p EXCEPT !.ret = p.nodes]

(* graph.c:19-21 *)
graph_edge_count(p) == [p EXCEPT !.ret = p.edges]

-----------------------------------------------------------------------------
Running == \A r \in Runs : proc[r].pc = "run"

Callers == {1, 2}
NoObs == [seen |-> FALSE, edges |-> 0, nodes |-> 0, during |-> "idle"]
Other(c) == CHOOSE d \in Callers : d # c

(* graph.c:4-5 in the process with two callers, no call made yet *)
ConcInit ==
    /\ nodes = 0
    /\ edges = 0
    /\ thr = [c \in Callers |-> [pc |-> "idle", rn |-> 0, re |-> 0]]
    /\ lastStep = 0
    /\ before = [nodes |-> 0, edges |-> 0]
    /\ obs = NoObs
    /\ writers = {}
    /\ adds = 0
    /\ done = [c \in Callers |-> 0]
    /\ retSet = {}
    /\ retDup = FALSE
    /\ clean = TRUE

(* clamp_int is not called by graph.c or main.c *)
ClampUnused ==
    /\ cin = [v |-> 0, lo |-> 0, hi |-> 0]
    /\ cout = 0
    /\ cout2 = 0
    /\ cstage = "none"

Init ==
    /\ ConcInit
    /\ ClampUnused
    /\ proc = [r \in Runs |-> ProcInit]
    /\ build \in Builds
    /\ op = "start"
    /\ ids = [r \in Runs |-> 0]
    /\ prev = [r \in Runs |-> ProcInit]
    /\ prevOp = "start"
    /\ calls = 0
    /\ resetDone = FALSE

History == prev' = proc /\ prevOp' = op

(* a caller calls graph_init() *)
Reset ==
    /\ Running
    /\ proc' = [r \in Runs |-> graph_init(proc[r])]
    /\ op' = "init"
    /\ calls' = 0
    /\ resetDone' = TRUE
    /\ History
    /\ UNCHANGED <<build, ids>>
    /\ UNCHANGED <<concVars, clampVars>>

(* a caller calls graph_add_node(id); the two runs pass their own ids *)
AddNodeIds(i) ==
    /\ Running
    /\ proc' = [r \in Runs |-> graph_add_node(proc[r], i[r])]
    /\ ids' = i
    /\ op' = "add"
    /\ calls' = IF calls < MaxCalls THEN calls + 1 ELSE calls
    /\ History
    /\ UNCHANGED <<build, resetDone>>
    /\ UNCHANGED <<concVars, clampVars>>

AddNode == \E i \in [Runs -> Ids] : AddNodeIds(i)

(* a caller calls graph_edge_count() *)
EdgeCount ==
    /\ Running
    /\ proc' = [r \in Runs |-> graph_edge_count(proc[r])]
    /\ op' = "count"
    /\ History
    /\ UNCHANGED <<build, ids, calls, resetDone>>
    /\ UNCHANGED <<concVars, clampVars>>

Next == Reset \/ AddNode \/ EdgeCount

Spec == Init /\ [][Next]_vars

-----------------------------------------------------------------------------
(* Two runs that differ in how they start: run 2 calls graph_init() first, *)
(* as main.c does, and run 1 never calls it.  After that both make the     *)
(* same graph_add_node and graph_edge_count calls.                         *)
ResetSecondRunOnly ==
    /\ op = "start"
    /\ proc' = [proc EXCEPT ![2] = graph_init(proc[2])]
    /\ op' = "init"
    /\ calls' = 0
    /\ resetDone' = TRUE
    /\ History
    /\ UNCHANGED <<build, ids>>
    /\ UNCHANGED <<concVars, clampVars>>

NextNoReset == ResetSecondRunOnly \/ AddNode \/ EdgeCount

SpecNoReset == Init /\ [][NextNoReset]_vars

-----------------------------------------------------------------------------
(* One process, two callers, no locking (graph.c has none).  Each action   *)
(* is one access to the statics.  A data race is undefined behaviour: after *)
(* its own store of nodes a caller may find in `nodes > 1` and in          *)
(* `return nodes` either the value it kept in a register or the value it   *)
(* reloads from memory, so both are allowed at each use.                   *)

\* graph_add_node calls begun between two graph_init calls, at most; it
\* keeps both counters short of overflow in this specification
MaxConcAdds == 3

Statics == [nodes |-> nodes, edges |-> edges]

\* the function caller c is in
FnOf(c) == CASE thr[c].pc = "idle" -> "idle"
             [] thr[c].pc = "init9" -> "init"
             [] OTHER -> "add"

\* the counter caller c uses: the functions take no instance argument, so
\* it is the one pair of statics, whoever calls
CounterOf(c) == Statics

\* history kept by every step; the runs of Spec are not involved
Step(c) == lastStep' = c /\ before' = Statics /\ UNCHANGED <<seqVars, clampVars>>
NotARead == obs' = NoObs

(* graph.c:7-8  caller c enters graph_init and stores nodes = 0 *)
InitNodes(c) ==
    /\ thr[c].pc = "idle"
    /\ nodes' = 0
    /\ thr' = [thr EXCEPT ![c].pc = "init9"]
    /\ writers' = writers \cup {c}
    /\ adds' = 0
    /\ done' = [d \in Callers |-> 0]
    /\ retSet' = {}
    /\ retDup' = FALSE
    /\ clean' = (thr[Other(c)].pc = "idle")
    /\ Step(c)
    /\ NotARead
    /\ UNCHANGED <<edges>>

(* graph.c:9-10  edges = 0, and graph_init returns *)
InitEdges(c) ==
    /\ thr[c].pc = "init9"
    /\ edges' = 0
    /\ thr' = [thr EXCEPT ![c].pc = "idle"]
    /\ Step(c)
    /\ NotARead
    /\ UNCHANGED <<nodes, writers, adds, done, retSet, retDup, clean>>

(* graph.c:12-14  caller c enters graph_add_node(id), discards id and      *)
(* loads nodes, the argument of add                                        *)
AddLoadNodes(c, id) ==
    /\ thr[c].pc = "idle"
    /\ adds < MaxConcAdds
    /\ thr' = [thr EXCEPT ![c].pc = "add14", ![c].rn = nodes]
    /\ writers' = writers \cup {c}
    /\ adds' = adds + 1
    /\ clean' = (clean /\ FnOf(Other(c)) # "init")
    /\ Step(c)
    /\ NotARead
    /\ UNCHANGED <<nodes, edges, done, retSet, retDup>>

(* graph.c:14  nodes = add(nodes, 1): the store *)
AddStoreNodes(c) ==
    /\ thr[c].pc = "add14"
    /\ nodes' = WrapInt(add(thr[c].rn, 1))
    /\ thr' = [thr EXCEPT ![c].pc = "add15", ![c].rn = WrapInt(add(thr[c].rn, 1))]
    /\ Step(c)
    /\ NotARead
    /\ UNCHANGED <<edges, writers, adds, done, retSet, retDup, clean>>

(* graph.c:15  if (nodes > 1) *)
AddTest(c) ==
    /\ thr[c].pc = "add15"
    /\ \E v \in {nodes, thr[c].rn} :
          thr' = [thr EXCEPT ![c].pc = IF v > 1 THEN "add15load" ELSE "add16"]
    /\ Step(c)
    /\ NotARead
    /\ UNCHANGED <<nodes, edges, writers, adds, done, retSet, retDup, clean>>

(* graph.c:15  edges = add(edges, 1): the load of edges *)
AddLoadEdges(c) ==
    /\ thr[c].pc = "add15load"
    /\ thr' = [thr EXCEPT ![c].pc = "add15store", ![c].re = edges]
    /\ Step(c)
    /\ NotARead
    /\ UNCHANGED <<nodes, edges, writers, adds, done, retSet, retDup, clean>>

(* graph.c:15  edges = add(edges, 1): the store *)
AddStoreEdges(c) ==
    /\ thr[c].pc = "add15store"
    /\ edges' = WrapInt(add(thr[c].re, 1))
    /\ thr' = [thr EXCEPT ![c].pc = "add16"]
    /\ Step(c)
    /\ NotARead
    /\ UNCHANGED <<nodes, writers, adds, done, retSet, retDup, clean>>

(* graph.c:16  return nodes *)
AddReturn(c) ==
    /\ thr[c].pc = "add16"
    /\ \E v \in {nodes, thr[c].rn} :
          /\ thr' = [thr EXCEPT ![c].pc = "idle", ![c].rn = 0, ![c].re = 0]
          /\ retSet' = retSet \cup {v}
          /\ retDup' = (retDup \/ v \in retSet)
    /\ done' = [done EXCEPT ![c] = done[c] + 1]
    /\ Step(c)
    /\ NotARead
    /\ UNCHANGED <<nodes, edges, writers, adds, clean>>

(* graph.c:19-21  caller c calls graph_edge_count: one load of edges *)
CountRead(c) ==
    /\ thr[c].pc = "idle"
    /\ obs' = [seen |-> TRUE, edges |-> edges, nodes |-> nodes,
               during |-> FnOf(Other(c))]
    /\ UNCHANGED thr
    /\ Step(c)
    /\ UNCHANGED <<nodes, edges, writers, adds, done, retSet, retDup, clean>>

NextConc ==
    \/ \E c \in Callers : InitNodes(c)
    \/ \E c \in Callers : InitEdges(c)
    \/ \E c \in Callers : \E id \in Ids : AddLoadNodes(c, id)
    \/ \E c \in Callers : AddStoreNodes(c)
    \/ \E c \in Callers : AddTest(c)
    \/ \E c \in Callers : AddLoadEdges(c)
    \/ \E c \in Callers : AddStoreEdges(c)
    \/ \E c \in Callers : AddReturn(c)
    \/ \E c \in Callers : CountRead(c)

InitConc == Init /\ build = "wrapv"

SpecConc == InitConc /\ [][NextConc]_vars

-----------------------------------------------------------------------------
(* The claims.  op names the call that produced the current state and prev *)
(* is the state that call started from, so "after every call" and "the     *)
(* next call" are state predicates.                                        *)

\* C1: after every call, in every run, edges = max(nodes - 1, 0).
C1_EdgeInvariant ==
    \A r \in Runs : proc[r].edges = Max(proc[r].nodes - 1, 0)

\* C2: graph_init from any state yields nodes = 0 and edges = 0 (so
\* graph_edge_count would return 0), and a graph_init that follows a
\* graph_init leaves the whole state as the first one left it.
C2_ResetYieldsEmpty ==
    op = "init" =>
        /\ \A r \in Runs : proc[r].nodes = 0 /\ proc[r].edges = 0
        /\ \A r \in Runs : graph_edge_count(proc[r]).ret = 0
        /\ prevOp = "init" => proc = prev

\* C2 witness: a graph_init that followed insertions which had made edges.
C2_ResetAfterInsertions ==
    /\ op = "init"
    /\ \A r \in Runs : prev[r].nodes > 2 /\ prev[r].edges > 1

\* C3: two runs making the same calls with different ids return the same
\* value from every call and hold the same counters.
C3_IdIrrelevance ==
    \A r1, r2 \in Runs :
        /\ proc[r1].ret = proc[r2].ret
        /\ proc[r1].nodes = proc[r2].nodes
        /\ proc[r1].edges = proc[r2].edges
        /\ proc[r1].pc = proc[r2].pc

\* C3 witness: the second insertion since the reset, one run passing a
\* negative id and the other zero.
C3_DifferentIdsPassed ==
    /\ op = "add" /\ prevOp = "add" /\ calls = 2
    /\ ids[1] = -5 /\ ids[2] = 0
    /\ Running

\* C4: graph_add_node and graph_edge_count never lower nodes or edges.
C4_Monotone ==
    op \in {"add", "count"} =>
        \A r \in Runs : /\ proc[r].nodes >= prev[r].nodes
                        /\ proc[r].edges >= prev[r].edges

\* C5: from nodes = N >= 0, graph_add_node returns N + 1, which is the
\* nodes it stored.
C5_ReturnsNPlusOne ==
    (op = "add" /\ Running) =>
        \A r \in Runs :
            prev[r].nodes >= 0 =>
                /\ proc[r].ret = prev[r].nodes + 1
                /\ proc[r].ret = proc[r].nodes

\* C6: graph_edge_count changes neither counter and returns edges; the
\* counters change only in graph_init and graph_add_node.
C6_EdgeCountPure ==
    /\ op = "count" =>
          \A r \in Runs : /\ proc[r].nodes = prev[r].nodes
                          /\ proc[r].edges = prev[r].edges
                          /\ proc[r].ret = prev[r].edges
    /\ (\E r \in Runs : \/ proc[r].nodes # prev[r].nodes
                        \/ proc[r].edges # prev[r].edges)
          => op \in {"init", "add"}

\* C6 witness: a graph_edge_count that returned a nonzero count, different
\* from the value the call before it returned.
C6_EdgeCountRead ==
    /\ op = "count"
    /\ \A r \in Runs : proc[r].ret > 0 /\ proc[r].ret # prev[r].ret

\* C7: k graph_add_node calls after a graph_init leave nodes = k and
\* edges = max(k - 1, 0), which is what graph_edge_count then returns.
C7_CountsCallsSinceReset ==
    (resetDone /\ calls < MaxCalls) =>
        \A r \in Runs :
            /\ proc[r].nodes = calls
            /\ proc[r].edges = Max(calls - 1, 0)
            /\ op = "count" => proc[r].ret = Max(calls - 1, 0)

\* C8: a graph_add_node whose increment does not fit an int leaves the
\* counter at INT_MAX or fails explicitly; it never wraps.  (The process
\* aborting is counted as an explicit failure here.)
C8_NoSilentWrap ==
    op = "add" =>
        \A r \in Runs :
            /\ prev[r].nodes = INT_MAX =>
                  (proc[r].nodes = INT_MAX \/ proc[r].pc = "aborted")
            /\ prev[r].edges = INT_MAX =>
                  (proc[r].edges = INT_MAX \/ proc[r].pc = "aborted")

\* C9: every graph_add_node adds exactly 1 to nodes, and adds to edges 0
\* when the new nodes is 1 and exactly 1 otherwise.
C9_IncrementsByOne ==
    (op = "add" /\ Running) =>
        \A r \in Runs :
            /\ proc[r].nodes = prev[r].nodes + 1
            /\ proc[r].edges = prev[r].edges + (IF proc[r].nodes = 1 THEN 0 ELSE 1)

\* C10: while the process runs every call can be made, with every id, and
\* the process stops only by the overflow of a counter.
C10_Total ==
    /\ Running =>
          /\ ENABLED Reset
          /\ ENABLED EdgeCount
          /\ \A i \in [Runs -> Ids] : ENABLED AddNodeIds(i)
    /\ ~Running =>
          /\ op = "add" /\ build = "trapv"
          /\ \A r \in Runs : prev[r].nodes = INT_MAX \/ prev[r].edges = INT_MAX

\* C10 witness: a graph_add_node with a negative id and one with the
\* largest id completed, and the process runs on.
C10_AnyIdAccepted ==
    /\ op = "add" /\ Running
    /\ ids[1] = -5 /\ ids[2] = INT_MAX
    /\ \A r \in Runs : proc[r].nodes = prev[r].nodes + 1

-----------------------------------------------------------------------------
(* What the counter guarantees short of overflow: while at most INT_MAX    *)
(* insertions were made since the last graph_init (or program start), the  *)
(* statements of C1, C4, C5, C7 and C9 hold of every build.                *)
NoOverflowYet == calls <= INT_MAX

UpToIntMax_EdgeInvariant == NoOverflowYet => C1_EdgeInvariant
UpToIntMax_Monotone == NoOverflowYet => C4_Monotone
UpToIntMax_ReturnsNPlusOne == NoOverflowYet => C5_ReturnsNPlusOne
UpToIntMax_CountsCalls == NoOverflowYet => C7_CountsCallsSinceReset
UpToIntMax_IncrementsByOne == NoOverflowYet => C9_IncrementsByOne

-----------------------------------------------------------------------------
(* Claims about two callers in one process, under SpecConc.                *)

AllIdle == \A c \in Callers : thr[c].pc = "idle"

\* C11: a caller that reads the edge count while the other caller, the only
\* one that ever writes, is inside graph_add_node never sees a pair with
\* edges # max(nodes - 1, 0).
C11_NoTornRead ==
    (obs.seen /\ obs.during = "add" /\ writers = {Other(lastStep)}) =>
        obs.edges = Max(obs.nodes - 1, 0)

\* C12: when the graph_add_node calls the two callers made since a
\* graph_init that nothing overlapped (or since program start) have all
\* returned, m by one caller and n by the other, nodes = m + n,
\* edges = max(m + n - 1, 0) and the values returned are exactly 1..m+n,
\* each once.
C12_NoLostUpdate ==
    (clean /\ AllIdle) =>
        LET k == done[1] + done[2]
        IN  /\ nodes = k
            /\ edges = Max(k - 1, 0)
            /\ retSet = 1..k
            /\ ~retDup

\* C13: a step of graph_init or graph_add_node made by one user leaves the
\* counter of the other user as it was.
C13_NoCrossEffect ==
    lastStep # 0 =>
        \A v \in Callers \ {lastStep} : CounterOf(v) = before

-----------------------------------------------------------------------------
(* Claim about the program start, under SpecNoReset.                       *)

\* C14: before any graph_init the counter is empty, and a run that never
\* calls graph_init returns from every graph_add_node and graph_edge_count
\* what the run that called graph_init first returns, and holds the same
\* counters.
C14_StartsEmpty ==
    /\ op = "start" => \A r \in Runs : proc[r].nodes = 0 /\ proc[r].edges = 0
    /\ resetDone =>
          /\ proc[1].ret = proc[2].ret
          /\ proc[1].nodes = proc[2].nodes
          /\ proc[1].edges = proc[2].edges

\* C14 witness: run 2 was reset and run 1 was not, insertions followed, and
\* graph_edge_count returned a nonzero count.
C14_CountWithoutReset ==
    /\ resetDone /\ op = "count" /\ calls >= 3
    /\ proc[1].ret = calls - 1

-----------------------------------------------------------------------------
(* util/number.h: clamp_int, applied to every triple of ints, and applied  *)
(* again to its own result.                                                *)

\* a clamp_int without the upper bound
clamp_int_NoUpper(v, lo, hi) == IF v < lo THEN lo ELSE v

(* number.h:4-8 *)
clamp_int(v, lo, hi) ==
    IF v < lo THEN lo
    ELSE IF v > hi THEN hi
    ELSE v

InitClamp ==
    /\ ConcInit
    /\ proc = [r \in Runs |-> ProcInit]
    /\ build = "wrapv"
    /\ op = "start"
    /\ ids = [r \in Runs |-> 0]
    /\ prev = [r \in Runs |-> ProcInit]
    /\ prevOp = "start"
    /\ calls = 0
    /\ resetDone = FALSE
    /\ cin \in [v : IntRange, lo : IntRange, hi : IntRange]
    /\ cout = 0
    /\ cout2 = 0
    /\ cstage = "in"

ClampOnce ==
    /\ cstage = "in"
    /\ cout' = clamp_int(cin.v, cin.lo, cin.hi)
    /\ cstage' = "once"
    /\ UNCHANGED <<cin, cout2, seqVars, concVars>>

ClampTwice ==
    /\ cstage = "once"
    /\ cout2' = clamp_int(cout, cin.lo, cin.hi)
    /\ cstage' = "twice"
    /\ UNCHANGED <<cin, cout, seqVars, concVars>>

NextClamp == ClampOnce \/ ClampTwice

SpecClamp == InitClamp /\ [][NextClamp]_vars

\* C15: for lo <= hi, clamp_int(v, lo, hi) is within lo..hi: it is v when
\* v is within lo..hi, lo when v < lo and hi when v > hi; clamping the
\* result again returns it unchanged.
C15_ClampInt ==
    (cstage \in {"once", "twice"} /\ cin.lo <= cin.hi) =>
        /\ cin.lo <= cout /\ cout <= cin.hi
        /\ (cin.lo <= cin.v /\ cin.v <= cin.hi) => cout = cin.v
        /\ cin.v < cin.lo => cout = cin.lo
        /\ cin.v > cin.hi => cout = cin.hi
        /\ cstage = "twice" => cout2 = cout

\* C15 witness: a value above a nonempty range was clamped to hi, twice.
C15_ClampedFromAbove ==
    /\ cstage = "twice"
    /\ cin.lo < cin.hi /\ cin.v > cin.hi
    /\ cout = cin.hi /\ cout2 = cin.hi

=============================================================================
